---- MODULE Spec2Model ----
(***************************************************************************)
(* gremllm/nextjs: the foreign-function bridge (src/src/lib/ffi.ts), the    *)
(* native-library installer (src/src/scripts/download-binary.ts) and the   *)
(* request handoff (src/unnamed/part_001, src/src/route.ts, config.ts).    *)
(*                                                                         *)
(* JavaScript runs every synchronous function to completion, so a call of *)
(* convert (ensureLibraryLoaded and the native call included) is one      *)
(* atomic step.  The installer is asynchronous: each await, and each file *)
(* system call the process can be killed after, is a step of its own.     *)
(***************************************************************************)
EXTENDS Integers, Sequences, FiniteSets, TLC

VARIABLES
    platform,        \* process.platform
    arch,            \* process.arch
    binaries,        \* the files of BINARY_DIR (= the loader's package-relative directory), by name
    elsewhere,       \* the library files at the loader's other candidate locations
    Convert,         \* ffi.ts:45, the process-wide bound entry point (Unset = undefined)
    koffiLoads,      \* how many times koffi.load opened the library in this process
    calls,           \* how many convert calls this process has made
    last,            \* the observable record of the latest convert call
    nonNullResults,  \* how many non-null results the native Convert has handed to the bridge
    freeCalls,       \* how many times the bridge has called the native Free
    recovered,       \* the causes of failure convert has met so far
    revision,        \* which revision of download-binary.ts runs: "direct", "archive" or "pinned"
    pc,              \* the installer's position
    run,             \* the number of the installer's current invocation
    target,          \* pinned revision: the index in PLATFORMS being processed
    resolved,        \* what getBinaryName / getArchiveName returned to main
    redirects,       \* redirects followed by the current downloadFile
    archive,         \* the file at archivePath
    tempExists,      \* whether BINARY_DIR/.temp-extract exists
    tempFiles,       \* the files of BINARY_DIR/.temp-extract
    found,           \* what extractArchive's files.find saw and returned
    work,            \* what the current install sequence has done: requests, downloads, extractions
    touched,         \* the outputs this invocation has started a download for
    startBinaries,   \* the files of BINARY_DIR when this invocation began
    server,          \* downloadFile alone: what the remote side answers at each URL
    requested,       \* the URLs downloadFile has passed to https.get, in order
    answered,        \* the URLs whose response the callback has handled, in order
    dlPc,            \* the position of the downloadFile promise
    dlError,         \* what the promise was rejected with
    dest,            \* the file at dest
    destAtStart,     \* the file at dest when downloadFile was called
    faults,          \* the transport and file-system failures met so far
    wrapper,         \* which withGremllm next.config.js called: config.ts or the one in ffi.ts
    configured,      \* the gremllmConfig given to withGremllm
    env,             \* process.env of the server, by key
    baseUrl,         \* process.env.GREMLLM_BASE_URL of the server
    detector,        \* the middleware the site deploys: part_001 or src/middleware.ts
    inlined,         \* the latest run of the middleware of src/middleware.ts
    stage1,          \* the latest request the middleware saw, and what it returned
    stage2,          \* the latest invocation of GET, and what it returned
    gets             \* how many times GET or the converting middleware has run

bridgeVars == <<Convert, koffiLoads, calls, last, nonNullResults, freeCalls, recovered,
                elsewhere>>

downloadVars == <<server, requested, answered, dlPc, dlError, dest, destAtStart, faults>>

handoffVars == <<wrapper, configured, env, baseUrl, detector, inlined, stage1, stage2,
                 gets>>

----------------------------------------------------------------------------
(* Bounds *)

MaxCalls == 3

MaxRuns == 2

MaxRedirects == 2

MaxParams == 2

MaxGets == 2

----------------------------------------------------------------------------
(* Inputs *)

Platforms == {"darwin", "linux", "win32", "freebsd"}
Archs == {"arm64", "x64", "arm"}

Htmls == {"", "<p>a</p>", "<nav>n</nav><p>a</p>"}
StripLists == {<<>>, <<"nav">>, <<"nav", "footer">>}

\* What the native Convert does with one call: it returns a null pointer, it
\* returns a text (the empty text included), or the call throws.
NativeOutcomes ==
    { [kind |-> "null", text |-> ""],
      [kind |-> "throw", text |-> ""],
      [kind |-> "text", text |-> ""],
      [kind |-> "text", text |-> "a"],
      [kind |-> "text", text |-> "n a"] }

NoNative == [kind |-> "none", text |-> ""]

----------------------------------------------------------------------------
(* Files *)

NoFile == [exists |-> FALSE, complete |-> FALSE, exec |-> FALSE]

\* A whole library file, and one that holds only the beginning of its bytes.
LibraryFile == [exists |-> TRUE, complete |-> TRUE, exec |-> TRUE]

TruncatedFile == [exists |-> TRUE, complete |-> FALSE, exec |-> FALSE]

LocalNames == {"libschema.dylib", "libschema.so", "libschema.dll"}

PinnedNames ==
    { "libschema-darwin-arm64.dylib", "libschema-darwin-amd64.dylib",
      "libschema-linux-arm64.so", "libschema-linux-amd64.so",
      "libschema-windows-amd64.exe" }

BinaryNames == LocalNames \cup PinnedNames

----------------------------------------------------------------------------
(* src/src/lib/ffi.ts *)

Unset == 0

Unsupported == "unsupported"

NoPath == [dir |-> "none", name |-> "none"]

libName(p) ==
    CASE p = "darwin" -> "libschema.dylib"
      [] p = "linux"  -> "libschema.so"
      [] p = "win32"  -> "libschema.dll"
      [] OTHER        -> Unsupported

\* A candidate list that tries the working directory before the package.
cwdFirst(name) ==
    << [dir |-> "cwd", name |-> name],
       [dir |-> "package", name |-> name],
       [dir |-> "node_modules", name |-> name] >>

\* ffi.ts:23-30.
possiblePaths(name) ==
    << [dir |-> "package", name |-> name],
       [dir |-> "cwd", name |-> name],
       [dir |-> "node_modules", name |-> name] >>

existsSync(p) ==
    IF p.dir = "package"
    THEN p.name \in DOMAIN binaries /\ binaries[p.name].exists
    ELSE p \in elsewhere

RECURSIVE firstExisting(_, _)
firstExisting(paths, i) ==
    IF i > Len(paths) THEN NoPath
    ELSE IF existsSync(paths[i]) THEN paths[i]
    ELSE firstExisting(paths, i + 1)

getLibraryPath ==
    LET name == libName(platform) IN
    IF name = Unsupported
    THEN [threw |-> TRUE, cause |-> "unsupported", path |-> NoPath, searched |-> <<>>]
    ELSE LET libPath == firstExisting(possiblePaths(name), 1) IN
         IF libPath # NoPath
         THEN [threw |-> FALSE, cause |-> "none", path |-> libPath, searched |-> <<>>]
         ELSE [threw |-> TRUE, cause |-> "notfound", path |-> NoPath,
               searched |-> possiblePaths(name)]

\* getLibraryPath was not called.
NoLookup == [threw |-> FALSE, cause |-> "nolookup", path |-> NoPath, searched |-> <<>>]

\* koffi.load opens a file that is a whole shared library and throws on any other.
koffiLoad(p) ==
    IF p.dir = "package" THEN binaries[p.name].complete ELSE TRUE

\* A loader without the `if (Convert) return` guard.
alreadyLoadedReopens == FALSE

\* ffi.ts:48, `if (Convert) return`.
alreadyLoaded == Convert # Unset

ensureLibraryLoaded ==
    IF alreadyLoaded
    THEN [threw |-> FALSE, cause |-> "none", Convert |-> Convert, loads |-> 0,
          searched |-> FALSE, lookup |-> NoLookup]
    ELSE LET lp == getLibraryPath IN
         IF lp.threw
         THEN [threw |-> TRUE, cause |-> lp.cause, Convert |-> Convert, loads |-> 0,
               searched |-> TRUE, lookup |-> lp]
         ELSE IF ~koffiLoad(lp.path)
         THEN [threw |-> TRUE, cause |-> "open", Convert |-> Convert, loads |-> 0,
               searched |-> TRUE, lookup |-> lp]
         ELSE [threw |-> FALSE, cause |-> "none", Convert |-> koffiLoads + 1, loads |-> 1,
               searched |-> TRUE, lookup |-> lp]

\* A convert without the empty-input guard.
neverShortCircuits(html) == FALSE

\* ffi.ts:78, `if (!html)`.
emptyInput(html) == html = ""

\* ffi.ts:90, `if (!result)`: null and the empty text are both falsy.
truthy(native) == native.kind = "text" /\ native.text # ""

\* A fall-back that returns the empty text in place of the input.
fallbackLosesInput(html) == ""

\* ffi.ts:91 and ffi.ts:97, `return html`.
fallback(html) == html

\* A catch block that logs and rethrows.
catchRethrows(html) == [ret |-> "", threw |-> TRUE]

\* ffi.ts:95-98: the catch block turns every exception into a return value.
catchBlock(html) == [ret |-> fallback(html), threw |-> FALSE]

\* ffi.ts:88-94: the koffi `char*` return is decoded to a string and the bridge
\* returns; no Free is bound (ffi.ts:58) and none is called.
freesOf(native) == 0

convert(html, elementsToStrip, native) ==
    IF emptyInput(html)
    THEN [ret |-> "", threw |-> FALSE, cause |-> "none", ensured |-> FALSE,
          searched |-> FALSE, lookup |-> NoLookup,
          Convert |-> Convert, loads |-> 0, handle |-> Unset,
          native |-> NoNative, passed |-> <<>>, passedLen |-> 0, freed |-> 0]
    ELSE LET e == ensureLibraryLoaded IN
         IF e.threw
         THEN LET c == catchBlock(html) IN
              [ret |-> c.ret, threw |-> c.threw, cause |-> e.cause, ensured |-> TRUE,
               searched |-> e.searched, lookup |-> e.lookup,
               Convert |-> e.Convert, loads |-> e.loads, handle |-> Unset,
               native |-> NoNative, passed |-> <<>>, passedLen |-> 0, freed |-> 0]
         ELSE LET c == IF native.kind = "throw" THEN catchBlock(html)
                       ELSE IF ~truthy(native) THEN [ret |-> fallback(html), threw |-> FALSE]
                       ELSE [ret |-> native.text, threw |-> FALSE] IN
              [ret |-> c.ret, threw |-> c.threw,
               cause |-> IF native.kind \in {"throw", "null"} THEN native.kind ELSE "none",
               ensured |-> TRUE, searched |-> e.searched, lookup |-> e.lookup,
               Convert |-> e.Convert, loads |-> e.loads, handle |-> e.Convert,
               native |-> native, passed |-> elementsToStrip,
               passedLen |-> Len(elementsToStrip),
               freed |-> IF native.kind = "text" THEN freesOf(native) ELSE 0]

\* A wrapper that strips a list of its own.
convertWithOwnList(html, native) == convert(html, <<"nav">>, native)

convertWithDefaults(html, native) == convert(html, <<>>, native)

----------------------------------------------------------------------------
(* src/src/scripts/download-binary.ts: three revisions of the installer.     *)
(* "direct" (lines 1-179) downloads the bare library to its final path;      *)
(* "archive" (lines 181-424) downloads the latest release's archive and      *)
(* extracts it; "pinned" (lines 426-617) does so for every entry of          *)
(* PLATFORMS at a fixed version.                                             *)

Revisions == {"direct", "archive", "pinned"}

getBinaryName(p, a) ==
    CASE p = "darwin" -> IF a = "arm64" THEN "libschema_darwin_arm64.dylib"
                         ELSE "libschema_darwin_amd64.dylib"
      [] p = "linux"  -> IF a = "arm64" THEN "libschema_linux_arm64.so"
                         ELSE "libschema_linux_amd64.so"
      [] p = "win32"  -> "libschema_windows_amd64.dll"
      [] OTHER        -> Unsupported

getArchiveName(p, a) ==
    CASE p = "darwin" -> IF a = "arm64" THEN "libschema-darwin-arm64_darwin_arm64_v8.0.tar.gz"
                         ELSE "libschema-darwin-amd64_darwin_amd64_v1.tar.gz"
      [] p = "linux"  -> IF a = "arm64" THEN "libschema-linux-arm64_linux_arm64_v8.0.tar.gz"
                         ELSE "libschema-linux-amd64_linux_amd64_v1.tar.gz"
      [] p = "win32"  -> "libschema-windows-amd64_windows_amd64_v1.zip"
      [] OTHER        -> Unsupported

getLocalFilename(p) ==
    CASE p = "darwin" -> "libschema.dylib"
      [] p = "linux"  -> "libschema.so"
      [] p = "win32"  -> "libschema.dll"
      [] OTHER        -> Unsupported

PLATFORMS ==
    << [archiveName |-> "libschema-darwin-arm64_darwin_arm64_v8.0.tar.gz",
        outputName |-> "libschema-darwin-arm64.dylib", isZip |-> FALSE],
       [archiveName |-> "libschema-darwin-amd64_darwin_amd64_v1.tar.gz",
        outputName |-> "libschema-darwin-amd64.dylib", isZip |-> FALSE],
       [archiveName |-> "libschema-linux-arm64_linux_arm64_v8.0.tar.gz",
        outputName |-> "libschema-linux-arm64.so", isZip |-> FALSE],
       [archiveName |-> "libschema-linux-amd64_linux_amd64_v1.tar.gz",
        outputName |-> "libschema-linux-amd64.so", isZip |-> FALSE],
       [archiveName |-> "libschema-windows-amd64_windows_amd64_v1.zip",
        outputName |-> "libschema-windows-amd64.exe", isZip |-> TRUE] >>

\* The (OS, architecture) pairs of the supported matrix.
Supported(p, a) ==
    \/ p \in {"darwin", "linux"} /\ a \in {"arm64", "x64"}
    \/ p = "win32" /\ a = "x64"

\* What main asks the resolver for.
resolve(p, a) ==
    IF revision = "direct" THEN getBinaryName(p, a) ELSE getArchiveName(p, a)

\* destPath / outputPath of the invocation, as a name in BINARY_DIR.
destName ==
    IF revision = "pinned" THEN PLATFORMS[target].outputName
    ELSE getLocalFilename(platform)

\* An installer without the skip check.
neverSkips(name) == FALSE

\* `if (fs.existsSync(destPath))`: lines 150, 380 and 556.
alreadyInstalled(name) == binaries[name].exists

\* File names an archive may hold, and the name heuristic of files.find.
PayloadNames == {"libschema", "libschema.so", "libschema.exe", "README.md"}

extension(f) ==
    CASE f = "libschema.so"  -> ".so"
      [] f = "libschema.exe" -> ".exe"
      [] f = "README.md"     -> ".md"
      [] OTHER               -> ""

isLibraryFile(f) ==
    \/ f = "libschema"
    \/ extension(f) \in {".dylib", ".so", ".dll"}
    \/ revision = "pinned" /\ extension(f) = ".exe"

ArchiveContents ==
    { {"libschema"}, {"libschema", "README.md"}, {"README.md"},
      {"libschema", "libschema.so"}, {"libschema.exe"} }

NoArchive == [exists |-> FALSE, complete |-> FALSE, contents |-> {}]

NoFound == [located |-> FALSE, name |-> "none", complete |-> FALSE, exec |-> FALSE,
            from |-> 0, matches |-> {}]

NoWork == [requests |-> 0, downloads |-> 0, extractions |-> 0]

Running == {"fetch", "platform", "download", "stream", "extract", "rename", "chmod", "cleanup"}

Ended == {"done", "failed", "crashed", "stalled", "killed"}

installerVars == <<revision, pc, run, target, resolved, redirects, archive, tempExists,
                   tempFiles, found, work, touched, startBinaries>>

\* The catch block of main: remediation text, process.exit(1).  Nothing is removed.
Fail ==
    /\ pc' = "failed"
    /\ UNCHANGED <<revision, run, target, resolved, redirects, found, work, touched,
                   startBinaries>>

\* processPlatform returned: the loop of main goes on to the next entry.
Advance ==
    IF revision = "pinned" /\ target < Len(PLATFORMS)
    THEN pc' = "platform" /\ target' = target + 1
    ELSE pc' = "done" /\ target' = target

\* main up to its first await.
Begin ==
    /\ pc \in {"idle"} \cup Ended
    /\ run < MaxRuns
    /\ run' = run + 1
    /\ startBinaries' = binaries
    /\ touched' = {}
    /\ found' = NoFound
    /\ redirects' = 0
    /\ IF revision = "pinned"
       THEN /\ pc' = "platform"
            /\ target' = 1
            /\ resolved' = "none"
            /\ work' = NoWork
       ELSE /\ target' = 0
            /\ resolved' = resolve(platform, arch)
            /\ IF resolved' = Unsupported THEN pc' = "failed" /\ work' = NoWork
               ELSE IF alreadyInstalled(getLocalFilename(platform))
               THEN pc' = "done" /\ work' = NoWork
               ELSE pc' = "fetch" /\ work' = [NoWork EXCEPT !.requests = 1]
    /\ UNCHANGED <<revision, archive, tempExists, tempFiles, binaries>>
    /\ UNCHANGED <<platform, arch>>
    /\ UNCHANGED <<bridgeVars, downloadVars, handoffVars>>

\* processPlatform up to its first await.
ProcessPlatform ==
    /\ pc = "platform"
    /\ IF alreadyInstalled(destName)
       THEN Advance /\ work' = NoWork /\ UNCHANGED <<redirects, touched>>
       ELSE /\ pc' = "download"
            /\ redirects' = 0
            /\ work' = [NoWork EXCEPT !.requests = 1, !.downloads = 1]
            /\ touched' = touched \cup {destName}
            /\ UNCHANGED target
    /\ UNCHANGED <<revision, run, resolved, archive, tempExists, tempFiles, found,
                   startBinaries, binaries, platform, arch>>
    /\ UNCHANGED <<bridgeVars, downloadVars, handoffVars>>

\* getLatestRelease settles and main looks for the asset.
FetchRelease ==
    /\ pc = "fetch"
    /\ \E outcome \in {"ok", "status", "neterror", "malformed", "noasset"} :
          CASE outcome = "ok" ->
                 /\ pc' = "download"
                 /\ redirects' = 0
                 /\ work' = [work EXCEPT !.requests = @ + 1, !.downloads = @ + 1]
                 /\ touched' = touched \cup {destName}
                 /\ UNCHANGED <<revision, run, target, resolved, found, startBinaries>>
            [] outcome = "malformed" ->
                 \* JSON.parse throws inside the 'end' listener, outside the promise
                 /\ pc' = "crashed"
                 /\ UNCHANGED <<revision, run, target, resolved, redirects, found, work,
                                touched, startBinaries>>
            [] OTHER -> Fail
    /\ UNCHANGED <<archive, tempExists, tempFiles, binaries, platform, arch>>
    /\ UNCHANGED <<bridgeVars, downloadVars, handoffVars>>

\* The file downloadFile writes: destPath in the direct revision, archivePath in the others.
PartialDownload == [exists |-> TRUE, complete |-> FALSE, exec |-> FALSE]

\* One response of the redirect chain arrives at downloadFile.
Respond ==
    /\ pc = "download"
    /\ \E r \in {"redirect", "redirectNoLocation", "ok", "status", "neterror"} :
          CASE r = "redirect" ->
                 /\ redirects < MaxRedirects
                 /\ redirects' = redirects + 1
                 /\ work' = [work EXCEPT !.requests = @ + 1]
                 /\ UNCHANGED <<revision, pc, run, target, resolved, found, touched,
                                startBinaries, archive, binaries>>
            [] r = "ok" ->
                 \* fs.createWriteStream(dest)
                 /\ pc' = "stream"
                 /\ IF revision = "direct"
                    THEN /\ binaries' = [binaries EXCEPT ![destName] = PartialDownload]
                         /\ UNCHANGED archive
                    ELSE /\ archive' = [exists |-> TRUE, complete |-> FALSE, contents |-> {}]
                         /\ UNCHANGED binaries
                 /\ UNCHANGED <<revision, run, target, resolved, redirects, found, work,
                                touched, startBinaries>>
            [] OTHER -> Fail /\ UNCHANGED <<archive, binaries>>
    /\ UNCHANGED <<tempExists, tempFiles, platform, arch>>
    /\ UNCHANGED <<bridgeVars, downloadVars, handoffVars>>

\* The body is piped to the file: 'finish', an 'error' of the file stream, or the
\* response stops arriving (res.pipe leaves the file stream open and the promise unsettled).
Stream ==
    /\ pc = "stream"
    /\ \E o \in {"finish", "writeError", "aborted"} :
          CASE o = "finish" ->
                 IF revision = "direct"
                 THEN /\ binaries' = [binaries EXCEPT ![destName] =
                            [exists |-> TRUE, complete |-> TRUE, exec |-> platform # "win32"]]
                      /\ pc' = "done"
                      /\ UNCHANGED <<archive, tempExists>>
                 ELSE \* extractArchive up to its await: the temp directory is made
                      /\ \E c \in ArchiveContents :
                            archive' = [exists |-> TRUE, complete |-> TRUE, contents |-> c]
                      /\ tempExists' = TRUE
                      /\ pc' = "extract"
                      /\ UNCHANGED binaries
            [] o = "writeError" ->
                 \* fs.unlinkSync(dest); reject(err)
                 /\ IF revision = "direct"
                    THEN binaries' = [binaries EXCEPT ![destName] = NoFile] /\ UNCHANGED archive
                    ELSE archive' = NoArchive /\ UNCHANGED binaries
                 /\ pc' = "failed"
                 /\ UNCHANGED tempExists
            [] OTHER ->
                 /\ pc' = "stalled"
                 /\ UNCHANGED <<archive, binaries, tempExists>>
    /\ UNCHANGED <<revision, run, target, resolved, redirects, found, work, touched,
                   startBinaries, tempFiles, platform, arch>>
    /\ UNCHANGED <<bridgeVars, downloadVars, handoffVars>>

\* tar / unzip writes over the files of the same name in the temp directory.
extractInto(files, names, whole) ==
    {f \in files : f.name \notin names}
        \cup {[name |-> n, complete |-> whole, exec |-> FALSE, from |-> run] : n \in names}

\* What a tar / unzip that did not run to its end leaves behind.
Leftovers(contents) == {{}} \cup {{n} : n \in contents}

\* `if (process.platform !== 'win32') fs.chmodSync(extractedLibPath, 0o755)`, line 352.
chmodExtracted(f) ==
    IF revision = "archive" /\ platform # "win32" THEN [f EXCEPT !.exec = TRUE] ELSE f

\* The catch block of the pinned extractArchive removes the temp directory; the
\* finally block of the archive revision is empty.
ExtractThrows(files) ==
    /\ IF revision = "pinned"
       THEN tempExists' = FALSE /\ tempFiles' = {}
       ELSE tempExists' = tempExists /\ tempFiles' = files
    /\ pc' = "failed"
    /\ found' = found

\* The rest of extractArchive: the extraction ends, files.find picks the first
\* match in directory order, which the file system decides.
Extract ==
    /\ pc = "extract"
    /\ work' = [work EXCEPT !.extractions = @ + 1]
    /\ \/ \E left \in Leftovers(archive.contents) :
             ExtractThrows(extractInto(tempFiles, left, FALSE))
       \/ LET files == extractInto(tempFiles, archive.contents, TRUE)
               matches == {f \in files : isLibraryFile(f.name)} IN
           IF matches = {}
           THEN ExtractThrows(files)
           ELSE \E f \in matches :
                  /\ tempFiles' = (files \ {f}) \cup {chmodExtracted(f)}
                  /\ tempExists' = tempExists
                  /\ found' = [located |-> TRUE, name |-> f.name, complete |-> f.complete,
                               exec |-> chmodExtracted(f).exec, from |-> f.from,
                               matches |-> {m.name : m \in matches}]
                  /\ pc' = "rename"
    /\ UNCHANGED <<revision, run, target, resolved, redirects, touched, startBinaries,
                   archive, binaries, platform, arch>>
    /\ UNCHANGED <<bridgeVars, downloadVars, handoffVars>>

\* fs.renameSync(extractedLibPath, destPath)
Rename ==
    /\ pc = "rename"
    /\ \/ /\ binaries' = [binaries EXCEPT ![destName] =
                  [exists |-> TRUE, complete |-> found.complete, exec |-> found.exec]]
          /\ tempFiles' = {f \in tempFiles : f.name # found.name}
          /\ pc' = IF revision = "pinned" THEN "chmod" ELSE "cleanup"
       \/ /\ pc' = "failed"
          /\ UNCHANGED <<binaries, tempFiles>>
    /\ UNCHANGED <<revision, run, target, resolved, redirects, found, work, touched,
                   startBinaries, archive, tempExists, platform, arch>>
    /\ UNCHANGED <<bridgeVars, downloadVars, handoffVars>>

\* `if (!outputName.endsWith('.dll')) fs.chmodSync(outputPath, 0o755)`, line 573:
\* no outputName of PLATFORMS ends in .dll.
Chmod ==
    /\ pc = "chmod"
    /\ binaries' = [binaries EXCEPT ![destName].exec = TRUE]
    /\ pc' = "cleanup"
    /\ UNCHANGED <<revision, run, target, resolved, redirects, found, work, touched,
                   startBinaries, archive, tempExists, tempFiles, platform, arch>>
    /\ UNCHANGED <<bridgeVars, downloadVars, handoffVars>>

\* fs.rmSync(tempDir, ...); fs.unlinkSync(archivePath)
Cleanup ==
    /\ pc = "cleanup"
    /\ tempExists' = FALSE
    /\ tempFiles' = {}
    /\ archive' = NoArchive
    /\ Advance
    /\ UNCHANGED <<revision, run, resolved, redirects, found, work, touched,
                   startBinaries, binaries, platform, arch>>
    /\ UNCHANGED <<bridgeVars, downloadVars, handoffVars>>

\* The process is interrupted.  An extraction under way may leave a file half written.
Kill ==
    /\ pc \in Running
    /\ pc' = "killed"
    /\ IF pc = "extract"
       THEN \E left \in Leftovers(archive.contents) :
               tempFiles' = extractInto(tempFiles, left, FALSE)
       ELSE UNCHANGED tempFiles
    /\ UNCHANGED <<revision, run, target, resolved, redirects, found, work, touched,
                   startBinaries, archive, tempExists, binaries, platform, arch>>
    /\ UNCHANGED <<bridgeVars, downloadVars, handoffVars>>

----------------------------------------------------------------------------
(* downloadFile on its own, download-binary.ts:278-310 *)

\* The URLs the remote side serves.
Urls == {"asset", "cdn", "mirror"}

\* The URL main passes to downloadFile (asset.browser_download_url).
AssetUrl == "asset"

NoLocation == "none"

\* What https.get hands to the callback: res.statusCode and res.headers.location.
Responses ==
    [status : {200, 404}, location : {NoLocation}]
        \cup [status : {301, 302}, location : Urls \cup {NoLocation}]

\* The body served at a URL is named by the URL: two responses never carry
\* the same body.
bodyAt(url) == url

NoDest == [exists |-> FALSE, body |-> "none", whole |-> FALSE]

\* A file already at dest when downloadFile is called.
StaleDest == [exists |-> TRUE, body |-> "stale", whole |-> TRUE]

\* 281
isRedirect(res) == res.status \in {301, 302}

\* 283: a missing header and an empty one are both falsy
hasLocation(res) == res.location # NoLocation

\* The request is repeated at the URL it was already sent to.
retriesSameUrl(url, res) == url

\* 284: downloadFile(res.headers.location, dest)
redirectTarget(url, res) == res.location

\* A redirect without a Location is followed like any other.
followsRegardless(url, res) == [kind |-> "follow", to |-> url]

\* 281-289: what the callback does with a 301 or 302
onRedirect(url, res) ==
    IF hasLocation(res)
    THEN [kind |-> "follow", to |-> redirectTarget(url, res)]
    ELSE [kind |-> "reject", to |-> NoLocation]

\* 296-297: the stream has opened dest (created or truncated it) and the
\* body of this response is being written to it
opened(url) == [exists |-> TRUE, body |-> bodyAt(url), whole |-> FALSE]

\* 299-302: every byte of the body has been flushed
finished(file) == [file EXCEPT !.whole = TRUE]

\* The file is left where it is.
leavesFile(file) == file

\* 305: fs.unlinkSync(dest), when it succeeds
unlinkSync(file) == NoDest

\* 304-307: the 'error' listener of the stream.  unlinkSync throws when dest
\* does not exist or cannot be removed; the throw leaves the listener before
\* reject(err), as an uncaught exception.
onStreamError(file, removable) ==
    IF file.exists /\ removable
    THEN [pc |-> "rejected", error |-> "stream", dest |-> unlinkSync(file)]
    ELSE [pc |-> "crashed", error |-> "none", dest |-> file]

Settled == {"resolved", "rejected", "crashed", "stalled"}

\* 278-280: the caller's downloadFile(url, dest) sends the first request.
DownloadFile ==
    /\ dlPc = "idle"
    /\ dlPc' = "waiting"
    /\ requested' = <<AssetUrl>>
    /\ UNCHANGED <<server, answered, dlError, dest, destAtStart, faults>>
    /\ UNCHANGED <<platform, arch, binaries, bridgeVars, installerVars, handoffVars>>

\* 280-297: the callback of https.get runs with the response to the latest
\* request.  A redirect is followed by a further request (284), at most
\* MaxRedirects times here; the code itself sets no limit.
OnResponse ==
    /\ dlPc = "waiting"
    /\ LET url == requested[Len(requested)]
           res == server[url]
           step == onRedirect(url, res) IN
       /\ answered' = Append(answered, url)
       /\ IF isRedirect(res)
          THEN IF step.kind = "follow"
               THEN /\ Len(requested) <= MaxRedirects
                    /\ requested' = Append(requested, step.to)
                    /\ UNCHANGED <<dlPc, dlError>>
               ELSE /\ dlPc' = "rejected"
                    /\ dlError' = "redirect"
                    /\ UNCHANGED requested
          ELSE IF res.status # 200
               THEN /\ dlPc' = "rejected"
                    /\ dlError' = "status"
                    /\ UNCHANGED requested
               ELSE /\ dlPc' = "opening"
                    /\ UNCHANGED <<requested, dlError>>
    /\ UNCHANGED <<server, dest, destAtStart, faults>>
    /\ UNCHANGED <<platform, arch, binaries, bridgeVars, installerVars, handoffVars>>

\* 308: the request fails before any response (.on('error', reject)).
OnRequestError ==
    /\ dlPc = "waiting"
    /\ dlPc' = "rejected"
    /\ dlError' = "request"
    /\ faults' = faults \cup {"request"}
    /\ UNCHANGED <<server, requested, answered, dest, destAtStart>>
    /\ UNCHANGED <<platform, arch, binaries, bridgeVars, installerVars, handoffVars>>

\* 296-297: the write stream opens dest and the body starts to flow, or the
\* open fails and the stream emits 'error' (304-307).
Open ==
    /\ dlPc = "opening"
    /\ \/ /\ dest' = opened(requested[Len(requested)])
          /\ dlPc' = "streaming"
          /\ UNCHANGED <<dlError, faults>>
       \/ \E removable \in BOOLEAN :
             LET h == onStreamError(dest, removable) IN
             /\ dlPc' = h.pc
             /\ dlError' = h.error
             /\ dest' = h.dest
             /\ faults' = faults \cup {"open"}
    /\ UNCHANGED <<server, requested, answered, destAtStart>>
    /\ UNCHANGED <<platform, arch, binaries, bridgeVars, installerVars, handoffVars>>

\* 299-307: the body ends and the stream finishes; or a write fails; or the
\* response breaks off, which no listener handles: the promise stays
\* pending, or the unhandled 'error' of the response ends the process.
Pipe ==
    /\ dlPc = "streaming"
    /\ \/ /\ dest' = finished(dest)
          /\ dlPc' = "resolved"
          /\ UNCHANGED <<dlError, faults>>
       \/ \E removable \in BOOLEAN :
             LET h == onStreamError(dest, removable) IN
             /\ dlPc' = h.pc
             /\ dlError' = h.error
             /\ dest' = h.dest
             /\ faults' = faults \cup {"write"}
       \/ /\ dlPc' \in {"stalled", "crashed"}
          /\ faults' = faults \cup {"aborted"}
          /\ UNCHANGED <<dlError, dest>>
    /\ UNCHANGED <<server, requested, answered, destAtStart>>
    /\ UNCHANGED <<platform, arch, binaries, bridgeVars, installerVars, handoffVars>>

----------------------------------------------------------------------------
(* The process that calls the bridge *)

NoCall ==
    [fn |-> "none", html |-> "", strip |-> <<>>, ret |-> "", threw |-> FALSE,
     cause |-> "none", ensured |-> FALSE, searched |-> FALSE, lookup |-> NoLookup,
     loads |-> 0, handle |-> Unset, before |-> Unset, native |-> NoNative, passed |-> <<>>, passedLen |-> 0, freed |-> 0]

Record(fn, html, strip, r) ==
    [fn |-> fn, html |-> html, strip |-> strip, ret |-> r.ret, threw |-> r.threw,
     cause |-> r.cause, ensured |-> r.ensured, searched |-> r.searched,
     lookup |-> r.lookup, loads |-> r.loads,
     handle |-> r.handle, before |-> Convert, native |-> r.native,
     passed |-> r.passed, passedLen |-> r.passedLen, freed |-> r.freed]

Returned(fn, html, strip, r) ==
    /\ calls < MaxCalls
    /\ calls' = calls + 1
    /\ Convert' = r.Convert
    /\ koffiLoads' = koffiLoads + r.loads
    /\ last' = Record(fn, html, strip, r)
    /\ nonNullResults' = nonNullResults + (IF r.native.kind = "text" THEN 1 ELSE 0)
    /\ freeCalls' = freeCalls + r.freed
    /\ recovered' = recovered \cup (IF r.cause = "none" THEN {} ELSE {r.cause})
    /\ UNCHANGED <<platform, arch, binaries, elsewhere>>
    /\ UNCHANGED <<installerVars, downloadVars>>

CallConvert ==
    \E html \in Htmls, strip \in StripLists, native \in NativeOutcomes :
        /\ Returned("convert", html, strip, convert(html, strip, native))
        /\ UNCHANGED handoffVars

CallConvertWithDefaults ==
    \E html \in Htmls, native \in NativeOutcomes :
        /\ Returned("convertWithDefaults", html, <<>>, convertWithDefaults(html, native))
        /\ UNCHANGED handoffVars

\* The library file appears at one of the loader's candidate locations
\* (an install that ran while the process was up).
LibraryAppears ==
    /\ libName(platform) # Unsupported
    /\ \E i \in 1..3 :
          LET p == possiblePaths(libName(platform))[i] IN
          /\ ~existsSync(p)
          /\ IF p.dir = "package"
             THEN /\ binaries' = [binaries EXCEPT ![p.name] = LibraryFile]
                  /\ UNCHANGED elsewhere
             ELSE /\ elsewhere' = elsewhere \cup {p}
                  /\ UNCHANGED binaries
    /\ UNCHANGED <<platform, arch, Convert, koffiLoads, calls, last, nonNullResults,
                   freeCalls, recovered>>
    /\ UNCHANGED <<installerVars, downloadVars, handoffVars>>

----------------------------------------------------------------------------
(* The request handoff: the middleware of src/unnamed/part_001, GET of      *)
(* src/src/route.ts, and the two withGremllm (src/src/lib/config.ts:35-48   *)
(* and src/src/lib/ffi.ts:152-193).  A URL is held parsed: origin, path and *)
(* the query as the list of its key/value pairs, a key written without a    *)
(* value having the empty value.                                            *)

Origin == "https://site.example"

\* The origin of another site.
ForeignOrigin == "https://other.example"

\* GREMLLM_BASE_URL: unset, or the example value of the README
\* (part_000:200-206).
NoBaseUrl == ""
LocalBaseUrl == "http://localhost:3000"

\* part_001:16
TriggerParam == "gremllm"

\* part_001:27
ConversionRoute == "/api/gremllm"

Paths == {"/about", ConversionRoute}

Params ==
    { [key |-> "gremllm", value |-> ""],
      [key |-> "gremllm", value |-> "1"],
      [key |-> "page", value |-> "2"] }

Queries == UNION { [1..n -> Params] : n \in 0..MaxParams }

NoUrl == [origin |-> "", pathname |-> "", query |-> <<>>]

\* request.headers.get('x-gremllm-url'): null, the empty string, or a URL.
NoHeader == [set |-> FALSE, url |-> NoUrl]
EmptyHeader == [set |-> TRUE, url |-> NoUrl]

\* A header of that name sent by the client itself.
ClientHeader ==
    [set |-> TRUE, url |-> [origin |-> Origin, pathname |-> "/about", query |-> <<>>]]

\* The client's header names a page of another site.
ForeignHeader ==
    [set |-> TRUE, url |-> [origin |-> ForeignOrigin, pathname |-> "/about", query |-> <<>>]]

\* The client's header names a page of this site with the trigger parameter.
TriggerHeader ==
    [set |-> TRUE,
     url |-> [origin |-> Origin, pathname |-> "/about",
              query |-> <<[key |-> "gremllm", value |-> ""]>>]]

\* The requests that arrive.  The header of the client is varied on the
\* requests with at most one parameter.
Requests ==
    { q \in [url : [origin : {Origin}, pathname : Paths, query : Queries],
             xGremllmUrl : {NoHeader, EmptyHeader, ClientHeader, ForeignHeader,
                            TriggerHeader}] :
          q.xGremllmUrl # NoHeader => Len(q.url.query) <= 1 }

\* part_001:16, searchParams.has(name)
has(query, name) == \E i \in DOMAIN query : query[i].key = name

\* Only the first pair of that name is removed.
deleteFirst(query, name) ==
    IF ~has(query, name) THEN query
    ELSE LET i == CHOOSE j \in DOMAIN query :
                     /\ query[j].key = name
                     /\ \A k \in 1..(j - 1) : query[k].key # name IN
         SubSeq(query, 1, i - 1) \o SubSeq(query, i + 1, Len(query))

\* part_001:24, searchParams.delete(name): every pair of that name goes, the
\* others keep their order.
delete(query, name) == SelectSeq(query, LAMBDA p : p.key # name)

\* part_001:19 and part_001:49
NullResponse == [kind |-> "null", to |-> NoUrl, xGremllmUrl |-> NoHeader]

\* A detector that hands the URL on as it came, trigger included.
forwardsUrlAsIs(request) ==
    IF ~has(request.url.query, TriggerParam)
    THEN NullResponse
    ELSE [kind |-> "rewrite",
          to |-> [origin |-> request.url.origin, pathname |-> ConversionRoute,
                  query |-> <<>>],
          xGremllmUrl |-> [set |-> TRUE, url |-> request.url]]

\* part_001:15-38
gremllmMiddleware(request) ==
    IF ~has(request.url.query, TriggerParam)
    THEN NullResponse
    ELSE LET originalUrl == [request.url EXCEPT !.query = delete(@, TriggerParam)]
             rewriteUrl == [origin |-> request.url.origin, pathname |-> ConversionRoute,
                            query |-> <<>>] IN
         [kind |-> "rewrite", to |-> rewriteUrl,
          xGremllmUrl |-> [set |-> TRUE, url |-> originalUrl]]

\* part_001:43-50: NextResponse.next() leaves the request and its headers as
\* they came.
middleware(request) ==
    LET gremllmResponse == gremllmMiddleware(request) IN
    IF gremllmResponse.kind # "null"
    THEN gremllmResponse
    ELSE [kind |-> "next", to |-> request.url, xGremllmUrl |-> request.xGremllmUrl]

\* GremllmConfig, config.ts:3-16: elementsToStrip is optional; debug, which
\* only adds log lines (route.ts:35-38), is left off.
Configs ==
    { c \in [hasStrip : BOOLEAN, elementsToStrip : StripLists, debug : {FALSE}] :
          ~c.hasStrip => c.elementsToStrip = <<>> }

NoConfig == [hasStrip |-> FALSE, elementsToStrip |-> <<>>, debug |-> FALSE]

\* The value of an environment key: unset, a JSON text, or a text that is
\* not JSON.
NoBlob == [set |-> FALSE, json |-> FALSE, value |-> NoConfig]
MalformedBlob == [set |-> TRUE, json |-> FALSE, value |-> NoConfig]

EnvKeys == {"GREMLLM_CONFIG", "__GREMLLM_CONFIG__"}

\* config.ts:45 and ffi.ts:162, JSON.stringify(gremllmConfig)
stringify(gremllmConfig) == [set |-> TRUE, json |-> TRUE, value |-> gremllmConfig]

\* config.ts:35-48, the withGremllm that index.ts:8 exports
withGremllm(nextEnv, gremllmConfig) ==
    [nextEnv EXCEPT !["__GREMLLM_CONFIG__"] = stringify(gremllmConfig)]

\* ffi.ts:152-193, the withGremllm that also externalizes koffi
withGremllmWebpack(nextEnv, gremllmConfig) ==
    [nextEnv EXCEPT !["GREMLLM_CONFIG"] = stringify(gremllmConfig)]

Wrappers == {"config", "webpack"}

\* index.ts:8-10
IndexExports == {"withGremllm", "convert"}

\* route.ts:12: a name index.ts does not export is bound to undefined.
imported(name) == name \in IndexExports

\* What fetch(targetUrl) and response.text() do: fetch rejects, or there is
\* a response whose body can or cannot be read.  The body is told apart only
\* where GET reads it.
ContentTypes == {"text/html; charset=utf-8", "application/json", ""}

Upstreams ==
    { u \in [kind : {"response"}, status : {200, 404, 500}, contentType : ContentTypes,
             body : Htmls, textThrows : BOOLEAN] :
          /\ u.textThrows => u.body = ""
          /\ ~(u.status = 200 /\ u.contentType = "text/html; charset=utf-8")
                => (u.body = "" /\ ~u.textThrows) }
        \cup {[kind |-> "throws", status |-> 0, contentType |-> "", body |-> "",
               textThrows |-> FALSE]}

NoUpstream ==
    [kind |-> "none", status |-> 0, contentType |-> "", body |-> "", textThrows |-> FALSE]

\* route.ts:51, response.ok
ok(status) == status >= 200 /\ status <= 299

\* Every content type passes for HTML.
anyContentType(contentType) == TRUE

\* route.ts:59, contentType.includes('text/html')
includesHtml(contentType) == contentType = "text/html; charset=utf-8"

\* The check of the header comes after the fetch.
headerUnchecked(header) == FALSE

\* route.ts:22, `if (!targetUrl)`: null and the empty string are both falsy
missing(header) == ~header.set \/ header.url = NoUrl

\* route.ts:27-42: the strip list GET works with
readConfig(environment) ==
    LET configStr == environment["GREMLLM_CONFIG"] IN
    IF configStr.set /\ configStr.json /\ configStr.value.hasStrip
    THEN configStr.value.elementsToStrip
    ELSE <<>>

\* What GET returned and, for the record, what it did on the way.
Reply(status, body, contentType, cacheControl) ==
    [status |-> status, body |-> body, contentType |-> contentType,
     cacheControl |-> cacheControl, threw |-> FALSE]

\* NextResponse.json(...)
Json(status, error) == Reply(status, error, "application/json", "")

\* The exception leaves GET.
rethrows(error) ==
    [status |-> 0, body |-> error, contentType |-> "", cacheControl |-> "", threw |-> TRUE]

\* route.ts:80-86
catchAll(error) == Json(500, "Internal server error")

NoReply == Reply(0, "", "", "")

Did(reply, fetched, configRead, strip, raised, converted, fn) ==
    [reply |-> reply, fetched |-> fetched, configRead |-> configRead,
     elementsToStrip |-> strip, raised |-> raised, converted |-> converted, fn |-> fn]

\* route.ts:17-87.  r is what the bridge returns if it is called.
GET(request, environment, upstream, r) ==
    LET targetUrl == request.xGremllmUrl
        elementsToStrip == readConfig(environment)
        fetched == <<targetUrl.url>> IN
    IF missing(targetUrl)
    THEN Did(Json(400, "Missing target URL"), <<>>, FALSE, <<>>, "none", FALSE, "none")
    ELSE IF upstream.kind = "throws"
    THEN Did(catchAll("fetch failed"), fetched, TRUE, elementsToStrip, "fetch", FALSE, "none")
    ELSE IF ~ok(upstream.status)
    THEN Did(Json(upstream.status, "Failed to fetch"), fetched, TRUE, elementsToStrip,
             "none", FALSE, "none")
    ELSE IF ~includesHtml(upstream.contentType)
    THEN Did(Json(400, "Not an HTML page"), fetched, TRUE, elementsToStrip,
             "none", FALSE, "none")
    ELSE IF upstream.textThrows
    THEN Did(catchAll("body unreadable"), fetched, TRUE, elementsToStrip, "text", FALSE,
             "none")
    ELSE IF Len(elementsToStrip) > 0
    THEN IF r.threw
         THEN Did(catchAll("convert threw"), fetched, TRUE, elementsToStrip, "convert",
                  TRUE, "convert")
         ELSE Did(Reply(200, r.ret, "text/markdown; charset=utf-8", "public, max-age=3600"),
                  fetched, TRUE, elementsToStrip, "none", TRUE, "convert")
    ELSE IF ~imported("convertWithDefaults")
    THEN Did(catchAll("convertWithDefaults is not a function"), fetched, TRUE,
             elementsToStrip, "TypeError", FALSE, "none")
    ELSE IF r.threw
         THEN Did(catchAll("convert threw"), fetched, TRUE, elementsToStrip, "convert",
                  TRUE, "convertWithDefaults")
         ELSE Did(Reply(200, r.ret, "text/markdown; charset=utf-8", "public, max-age=3600"),
                  fetched, TRUE, elementsToStrip, "none", TRUE, "convertWithDefaults")

Detectors == {"helper", "inline"}

\* src/middleware.ts:67-78, config.matcher: the middleware does not run on
\* the paths that begin with api.
matcher(pathname) == pathname # ConversionRoute

\* src/middleware.ts:14-21: the requests the middleware converts itself.
detects(request) ==
    IF matcher(request.url.pathname) /\ has(request.url.query, TriggerParam)
    THEN [kind |-> "convert", to |-> request.url, xGremllmUrl |-> request.xGremllmUrl]
    ELSE [kind |-> "next", to |-> request.url, xGremllmUrl |-> request.xGremllmUrl]

\* The middleware of src/middleware.ts has not run.
NoInlined ==
    [ran |-> FALSE, request |-> [url |-> NoUrl, xGremllmUrl |-> NoHeader],
     kind |-> "none", fetched |-> <<>>, inner |-> NullResponse, raised |-> "none",
     converted |-> FALSE, markdown |-> ""]

Inlined(request, kind, fetched, raised, converted, markdown) ==
    [ran |-> TRUE, request |-> request, kind |-> kind, fetched |-> fetched,
     inner |-> detects([url |-> fetched[1], xGremllmUrl |-> request.xGremllmUrl]),
     raised |-> raised, converted |-> converted, markdown |-> markdown]

\* src/middleware.ts:23-63: what the middleware does with a request that
\* carries the trigger.  r is what the bridge returns if it is called.
inlineMiddleware(request, upstream, r) ==
    LET fetchUrl == [request.url EXCEPT !.query = delete(@, TriggerParam)]
        fetched == <<fetchUrl>> IN
    IF upstream.kind = "throws"
    THEN Inlined(request, "next", fetched, "fetch", FALSE, "")
    ELSE IF ~ok(upstream.status) \/ upstream.status # 200
    THEN Inlined(request, "next", fetched, "none", FALSE, "")
    ELSE IF ~includesHtml(upstream.contentType)
    THEN Inlined(request, "next", fetched, "none", FALSE, "")
    ELSE IF upstream.textThrows
    THEN Inlined(request, "next", fetched, "text", FALSE, "")
    ELSE IF ~imported("convertWithDefaults")
    THEN Inlined(request, "next", fetched, "TypeError", FALSE, "")
    ELSE IF r.threw
    THEN Inlined(request, "next", fetched, "convert", TRUE, "")
    ELSE Inlined(request, "markdown", fetched, "none", TRUE, r.ret)

\* No request is between the middleware and its handler.
NoStage1 == [arrived |-> FALSE, request |-> [url |-> NoUrl, xGremllmUrl |-> NoHeader],
             response |-> NullResponse]

\* The bridge was not called.
NoResult == [ret |-> "", threw |-> FALSE]

\* route.ts:45-49: the request fetch sends carries a User-Agent header and no
\* other; a request to this site's origin goes through the site's middleware.
internal(fetched) ==
    IF fetched = <<>> \/ fetched[1].origin # Origin
    THEN NullResponse
    ELSE middleware([url |-> fetched[1], xGremllmUrl |-> NoHeader])

NoStage2 ==
    [invoked |-> FALSE, request |-> [url |-> NoUrl, xGremllmUrl |-> NoHeader],
     triggered |-> FALSE, upstream |-> NoUpstream,
     did |-> Did(NoReply, <<>>, FALSE, <<>>, "none", FALSE, "none"),
     inner |-> NullResponse, markdown |-> ""]

\* A request reaches the server and the middleware runs on it.
Arrive ==
    /\ ~stage1.arrived
    /\ ~stage2.invoked
    /\ ~inlined.ran
    /\ gets < MaxGets
    /\ \E request \in Requests :
          stage1' = [arrived |-> TRUE, request |-> request,
                     response |-> IF detector = "helper" THEN middleware(request)
                                  ELSE detects(request)]
    /\ UNCHANGED <<wrapper, configured, env, baseUrl, detector, inlined, stage2, gets>>
    /\ UNCHANGED <<platform, arch, binaries, bridgeVars, installerVars, downloadVars>>

\* The request goes on to a page: it was not rewritten and does not name the
\* conversion route.
ServePage ==
    /\ stage1.arrived
    /\ stage1.response.kind = "next"
    /\ stage1.response.to.pathname # ConversionRoute
    /\ stage1' = NoStage1
    /\ UNCHANGED <<wrapper, configured, env, baseUrl, detector, inlined, stage2, gets>>
    /\ UNCHANGED <<platform, arch, binaries, bridgeVars, installerVars, downloadVars>>

\* The request, rewritten or sent to the conversion route by the client, is
\* handled by GET with the headers the middleware left on it.  The native
\* library has an outcome only where GET reaches the bridge.
InvokeGET ==
    /\ stage1.arrived
    /\ stage1.response.to.pathname = ConversionRoute
    /\ \E upstream \in Upstreams :
          LET request == [url |-> stage1.response.to,
                          xGremllmUrl |-> stage1.response.xGremllmUrl]
              strip == readConfig(env)
              reached == GET(request, env, upstream, NoResult).converted IN
          \E native \in IF reached THEN NativeOutcomes ELSE {NoNative} :
              LET r == IF ~reached THEN NoResult
                       ELSE IF Len(strip) > 0 THEN convert(upstream.body, strip, native)
                       ELSE convertWithDefaults(upstream.body, native)
                  did == GET(request, env, upstream, r) IN
              /\ stage2' = [invoked |-> TRUE, request |-> request,
                            triggered |-> stage1.response.kind = "rewrite",
                            upstream |-> upstream, did |-> did,
                            inner |-> internal(did.fetched), markdown |-> r.ret]
              /\ IF did.converted
                 THEN Returned(did.fn, upstream.body, strip, r)
                 ELSE UNCHANGED <<platform, arch, binaries, bridgeVars, installerVars,
                                  downloadVars>>
    /\ stage1' = NoStage1
    /\ gets' = gets + 1
    /\ UNCHANGED <<wrapper, configured, env, baseUrl, detector, inlined>>

\* src/middleware.ts:23-63 runs on a request that carries the trigger.  The
\* native library has an outcome only where the bridge is reached.
ConvertInline ==
    /\ stage1.arrived
    /\ stage1.response.kind = "convert"
    /\ \E upstream \in Upstreams :
          LET request == stage1.request
              reached == inlineMiddleware(request, upstream, NoResult).converted IN
          \E native \in IF reached THEN NativeOutcomes ELSE {NoNative} :
              LET r == IF reached THEN convertWithDefaults(upstream.body, native)
                       ELSE NoResult
                  ran == inlineMiddleware(request, upstream, r) IN
              /\ inlined' = ran
              /\ IF ran.converted
                 THEN Returned("convertWithDefaults", upstream.body, <<>>, r)
                 ELSE UNCHANGED <<platform, arch, binaries, bridgeVars, installerVars,
                                  downloadVars>>
    /\ stage1' = NoStage1
    /\ gets' = gets + 1
    /\ UNCHANGED <<wrapper, configured, env, baseUrl, detector, stage2>>

\* The response of GET, or of the converting middleware, goes out to the
\* client.
Send ==
    /\ stage2.invoked \/ inlined.ran
    /\ stage2' = NoStage2
    /\ inlined' = NoInlined
    /\ UNCHANGED <<wrapper, configured, env, baseUrl, detector, stage1, gets>>
    /\ UNCHANGED <<platform, arch, binaries, bridgeVars, installerVars, downloadVars>>

vars == <<platform, arch, binaries, elsewhere, Convert, koffiLoads, calls, last,
          nonNullResults, freeCalls, recovered, revision, pc, run, target, resolved,
          redirects, archive, tempExists, tempFiles, found, work, touched, startBinaries,
          server, requested, answered, dlPc, dlError, dest, destAtStart, faults,
          wrapper, configured, env, baseUrl, detector, inlined, stage1, stage2, gets>>

BridgeIdle ==
    /\ Convert = Unset
    /\ koffiLoads = 0
    /\ calls = 0
    /\ last = NoCall
    /\ nonNullResults = 0
    /\ freeCalls = 0
    /\ recovered = {}

\* No installer runs.
InstallerIdle ==
    /\ pc = "idle"
    /\ run = 0
    /\ target = 0
    /\ resolved = "none"
    /\ redirects = 0
    /\ archive = NoArchive
    /\ tempExists = FALSE
    /\ tempFiles = {}
    /\ found = NoFound
    /\ work = NoWork
    /\ touched = {}
    /\ startBinaries = binaries

\* No download of its own, no request.
DownloadIdle ==
    /\ server = [u \in Urls |-> [status |-> 200, location |-> NoLocation]]
    /\ requested = <<>>
    /\ answered = <<>>
    /\ dlPc = "idle"
    /\ dlError = "none"
    /\ dest = NoDest
    /\ destAtStart = NoDest
    /\ faults = {}

HandoffIdle ==
    /\ wrapper = "config"
    /\ configured = NoConfig
    /\ env = [k \in EnvKeys |-> NoBlob]
    /\ baseUrl = NoBaseUrl
    /\ detector = "helper"
    /\ inlined = NoInlined
    /\ stage1 = NoStage1
    /\ stage2 = NoStage2
    /\ gets = 0

InitBridge ==
    /\ platform \in Platforms
    /\ arch = "x64"
    /\ \E f \in {NoFile, LibraryFile, TruncatedFile} :
          binaries = [n \in BinaryNames |->
                        IF n = libName(platform) THEN f ELSE NoFile]
    /\ elsewhere \in SUBSET {p \in {possiblePaths(libName(platform))[i] : i \in 2..3} :
                                libName(platform) # Unsupported}
    /\ BridgeIdle
    /\ revision = "archive"
    /\ InstallerIdle
    /\ DownloadIdle
    /\ HandoffIdle

NextBridge == CallConvert \/ CallConvertWithDefaults \/ LibraryAppears

SpecBridge == InitBridge /\ [][NextBridge]_vars

\* The installer on a machine where the library is absent or already in place.
\* The pinned revision never reads process.platform or process.arch.
InitInstall ==
    /\ revision \in Revisions
    /\ IF revision = "pinned"
       THEN platform = "linux" /\ arch = "x64"
       ELSE platform \in Platforms /\ arch \in Archs
    /\ \E f \in {NoFile, LibraryFile} :
          binaries = [n \in BinaryNames |->
                        IF n = (IF revision = "pinned" THEN PLATFORMS[1].outputName
                                ELSE getLocalFilename(platform))
                        THEN f ELSE NoFile]
    /\ elsewhere = {}
    /\ BridgeIdle
    /\ InstallerIdle
    /\ DownloadIdle
    /\ HandoffIdle

NextInstall ==
    \/ Begin
    \/ ProcessPlatform
    \/ FetchRelease
    \/ Respond
    \/ Stream
    \/ Extract
    \/ Rename
    \/ Chmod
    \/ Cleanup
    \/ Kill

\* The installer runs to its end and the application then makes its first
\* conversion.
FirstEnsureLoaded ==
    /\ pc = "done"
    /\ calls = 0
    /\ CallConvert

InstallThenLoad ==
    /\ calls = 0
    /\ NextInstall

NextProvision == InstallThenLoad \/ FirstEnsureLoaded

SpecProvision == InitInstall /\ [][NextProvision]_vars

SpecInstall == InitInstall /\ [][NextInstall]_vars

\* downloadFile(AssetUrl, dest) against every remote side of Urls, with dest
\* absent or already there.
InitDownload ==
    /\ platform = "linux"
    /\ arch = "x64"
    /\ binaries = [n \in BinaryNames |-> NoFile]
    /\ elsewhere = {}
    /\ BridgeIdle
    /\ revision = "archive"
    /\ InstallerIdle
    /\ HandoffIdle
    /\ server \in [Urls -> Responses]
    /\ requested = <<>>
    /\ answered = <<>>
    /\ dlPc = "idle"
    /\ dlError = "none"
    /\ dest \in {NoDest, StaleDest}
    /\ destAtStart = dest
    /\ faults = {}

NextDownload == DownloadFile \/ OnResponse \/ OnRequestError \/ Open \/ Pipe

SpecDownload == InitDownload /\ [][NextDownload]_vars

\* A Next.js server on linux with the library installed, whose
\* next.config.js called one of the two
\* withGremllm, over an environment in which GREMLLM_CONFIG is unset or holds
\* a text that is not JSON.
InitHandoff ==
    /\ platform = "linux"
    /\ arch = "x64"
    /\ binaries = [n \in BinaryNames |->
                      IF n = libName("linux") THEN LibraryFile ELSE NoFile]
    /\ elsewhere = {}
    /\ BridgeIdle
    /\ revision = "archive"
    /\ InstallerIdle
    /\ DownloadIdle
    /\ wrapper \in Wrappers
    /\ configured \in Configs
    /\ \E host \in {NoBlob, MalformedBlob} :
          LET nextEnv == [k \in EnvKeys |-> IF k = "GREMLLM_CONFIG" THEN host ELSE NoBlob] IN
          env = IF wrapper = "config"
                THEN withGremllm(nextEnv, configured)
                ELSE withGremllmWebpack(nextEnv, configured)
    /\ baseUrl \in {NoBaseUrl, LocalBaseUrl}
    /\ detector \in Detectors
    /\ inlined = NoInlined
    /\ stage1 = NoStage1
    /\ stage2 = NoStage2
    /\ gets = 0

NextHandoff == Arrive \/ ServePage \/ InvokeGET \/ ConvertInline \/ Send

SpecHandoff == InitHandoff /\ [][NextHandoff]_vars

----------------------------------------------------------------------------
(* Claims about the bridge, checked under SpecBridge *)

Called == last.fn # "none"

\* C1: for any non-empty input text and any strip list, if the native Convert
\* call returns null, convert returns exactly the original input text.
C1_NullReturnsInput ==
    (Called /\ last.html # "" /\ last.native.kind = "null")
        => (~last.threw /\ last.ret = last.html)

C1_Witness ==
    /\ last.fn = "convert"
    /\ last.html = "<nav>n</nav><p>a</p>"
    /\ last.strip = <<"nav", "footer">>
    /\ last.native.kind = "null"
    /\ last.ret = last.html

\* C2: convert never throws to its caller; for every failure inside it (library
\* not found, library fails to open, native call throws, native call returns
\* null) it returns the original input text unchanged.
C2_NeverThrows ==
    Called =>
        /\ ~last.threw
        /\ last.cause \in {"unsupported", "notfound", "open", "throw", "null"}
              => last.ret = last.html

C2_Witness ==
    /\ {"notfound", "throw", "null"} \subseteq recovered
    /\ last.cause = "null"
    /\ last.ret = last.html
    /\ ~last.threw

\* C3: the bridge calls the native Free function exactly once for every
\* non-null result returned by Convert, and never for a null result.
C3_FreeOncePerResult == freeCalls = nonNullResults

\* C4: convert with empty html returns the empty string for any strip list,
\* without calling ensureLoaded, without opening the library and without
\* invoking the native entry point; the process-wide handle is left unchanged.
C4_EmptyShortCircuit ==
    (Called /\ last.html = "")
        => /\ last.ret = ""
           /\ ~last.threw
           /\ ~last.ensured
           /\ ~last.searched
           /\ last.loads = 0
           /\ last.native = NoNative
           /\ Convert = last.before

\* The library is in place and not yet loaded, so a call that reached
\* ensureLibraryLoaded would have opened it.
C4_Witness ==
    /\ last.fn = "convert"
    /\ last.html = ""
    /\ last.strip = <<"nav">>
    /\ last.ret = ""
    /\ Convert = Unset
    /\ ~getLibraryPath.threw
    /\ koffiLoad(getLibraryPath.path)

\* C5: once the native library has been opened and its entry point bound, it is
\* never opened again: every later ensureLoaded is a no-op and every later
\* conversion uses the same cached handle.
C5_LoadedOnce ==
    [][ (Convert # Unset) =>
           /\ Convert' = Convert
           /\ koffiLoads' = koffiLoads
           /\ (calls' # calls) =>
                 /\ ~last'.searched
                 /\ last'.loads = 0
                 /\ last'.handle \in {Unset, Convert} ]_vars

C5_Witness ==
    /\ calls = 3
    /\ koffiLoads = 1
    /\ last.before # Unset
    /\ last.native.kind = "text"
    /\ last.handle = Convert

----------------------------------------------------------------------------
(* Claims about the installer, checked under SpecInstall *)

\* C6: for every (OS, architecture) pair outside the supported matrix, platform
\* resolution fails with an unsupported-platform error and never returns the
\* artifact name of another platform or architecture as a default.
C6_UnsupportedPairFails ==
    (revision # "pinned" /\ pc # "idle" /\ ~Supported(platform, arch))
        => (resolved = Unsupported /\ pc = "failed")

\* The outputs an invocation of this revision is responsible for.
Outputs ==
    IF revision = "pinned" THEN {PLATFORMS[i].outputName : i \in 1..Len(PLATFORMS)}
    ELSE {getLocalFilename(platform)} \cap BinaryNames

\* C7: if the canonical output file already exists when the install sequence
\* starts, the sequence performs no network request, no extraction and no change
\* to the output file.
C7_SkipWhenInstalled ==
    (pc # "idle") =>
        /\ \A n \in Outputs :
              startBinaries[n].exists => (n \notin touched /\ binaries[n] = startBinaries[n])
        /\ (destName \in Outputs /\ startBinaries[destName].exists)
              => (work = NoWork /\ pc \in {"platform", "done", "killed"})

\* The second run finds the file the first run installed (on win32 the archive
\* revision leaves the installed file without the executable bit).
C7_Witness ==
    /\ revision = "archive"
    /\ platform = "win32"
    /\ run = 2
    /\ pc = "done"
    /\ startBinaries["libschema.dll"] = [exists |-> TRUE, complete |-> TRUE, exec |-> FALSE]
    /\ binaries = startBinaries
    /\ work = NoWork

\* C8: when the extracted archive contains more than one file matching the
\* library-payload heuristic, installation fails with an ambiguity error and no
\* file is moved to the output path.
C8_AmbiguousArchiveFails ==
    (/\ revision # "direct"
     /\ work.extractions > 0
     /\ archive.complete
     /\ Cardinality({n \in archive.contents : isLibraryFile(n)}) > 1)
        => (pc = "failed" /\ binaries[destName] = startBinaries[destName])

\* C9: at every point of the install sequence, including after a failure or an
\* interruption at any step, the canonical output path either does not exist or
\* holds the complete library payload.
C9_OutputAbsentOrComplete ==
    \A n \in BinaryNames : binaries[n].exists => binaries[n].complete

\* C10: after the install sequence ends, whether it succeeded or failed at any
\* step after the download began, neither the temporary extraction directory nor
\* the downloaded archive file remains on disk.
C10_NoResidue ==
    (pc \in {"done", "failed"} /\ work.downloads > 0)
        => (~tempExists /\ ~archive.exists)

\* C14: every failure of a provisioning step (a registry status other than
\* success, a manifest that is not JSON, a failed download, a redirect without
\* Location) reaches the failure handler of main, which prints the remediation
\* text and exits non-zero: an install sequence that ends, and was neither
\* completed nor killed from outside, ends in that handler.
C14_FailuresReachHandler ==
    pc \in Ended => pc \in {"done", "failed", "killed"}

----------------------------------------------------------------------------
(* Claims about downloadFile, checked under SpecDownload *)

\* The chain the remote side lays out from the asset URL: each 301 or 302
\* with a Location leads to the next URL, up to the redirects followed here.
RECURSIVE chainFrom(_, _)
chainFrom(url, n) ==
    IF n = 0 \/ server[url].status \notin {301, 302} \/ server[url].location = NoLocation
    THEN <<url>>
    ELSE <<url>> \o chainFrom(server[url].location, n - 1)

RedirectChain == chainFrom(AssetUrl, MaxRedirects)

FinalUrl == RedirectChain[Len(RedirectChain)]

\* C11: for a chain of n >= 0 redirects (301 or 302, each with a Location)
\* that ends in a 200, downloadFile sends its requests to the Locations in the
\* order of the chain and completes with dest holding exactly the body of the
\* final response; the body of no redirect is ever written to dest.
C11_FollowsRedirectChain ==
    /\ Len(requested) <= Len(RedirectChain)
    /\ \A i \in DOMAIN requested : requested[i] = RedirectChain[i]
    /\ (dest.exists /\ dest # destAtStart)
          => (dest.body = FinalUrl /\ server[FinalUrl].status = 200)
    /\ dlPc = "resolved"
          => /\ requested = RedirectChain
             /\ answered = RedirectChain
             /\ dest = [exists |-> TRUE, body |-> FinalUrl, whole |-> TRUE]
    /\ (server[FinalUrl].status = 200 /\ faults = {} /\ dlPc \in Settled)
          => dlPc = "resolved"

\* A 301 to a 302 to a 200: three requests, and the file that was at dest is
\* replaced by the body of the third response.
C11_Witness ==
    /\ dlPc = "resolved"
    /\ Len(requested) = 3
    /\ server[requested[1]].status = 301
    /\ server[requested[2]].status = 302
    /\ requested[3] # requested[1]
    /\ destAtStart = StaleDest
    /\ dest = [exists |-> TRUE, body |-> requested[3], whole |-> TRUE]

\* C12: when a response of the chain is a 301 or 302 without a Location,
\* downloadFile fails with the redirect error, sends no further request and
\* neither creates nor writes dest.
C12_RedirectWithoutLocation ==
    (/\ answered # <<>>
     /\ server[answered[Len(answered)]].status \in {301, 302}
     /\ server[answered[Len(answered)]].location = NoLocation)
        => /\ dlPc = "rejected"
           /\ dlError = "redirect"
           /\ requested = answered
           /\ dest = destAtStart

\* The second response of the chain is the redirect without a Location.
C12_Witness ==
    /\ Len(answered) = 2
    /\ server[answered[1]].status = 302
    /\ server[answered[2]].status = 301
    /\ server[answered[2]].location = NoLocation
    /\ dlPc = "rejected"
    /\ dlError = "redirect"
    /\ destAtStart = NoDest
    /\ ~dest.exists

\* C13: if writing dest fails during a download, the partially written dest
\* no longer exists when the error reaches the caller of downloadFile.
C13_WriteFailureRemovesPartial ==
    (dlPc = "rejected" /\ faults \cap {"open", "write"} # {}) => ~dest.exists

\* A write fails after a redirect was followed and part of the body was
\* written over an older file.
C13_Witness ==
    /\ dlPc = "rejected"
    /\ dlError = "stream"
    /\ faults = {"write"}
    /\ Len(requested) = 2
    /\ destAtStart = StaleDest
    /\ ~dest.exists

----------------------------------------------------------------------------
(* Claims about the request handoff, checked under SpecHandoff *)

\* The pairs of a query whose key is not the given one, in their order.
RECURSIVE without(_, _)
without(query, name) ==
    IF query = <<>> THEN <<>>
    ELSE (IF query[1].key = name THEN <<>> ELSE <<query[1]>>)
             \o without(SubSeq(query, 2, Len(query)), name)

\* C15: given a request whose query carries the trigger parameter, with or
\* without a value, the middleware of part_001 rewrites to /api/gremllm with
\* the header x-gremllm-url holding the original URL without any occurrence of
\* the trigger, path and other parameters kept; given a request without the
\* trigger it passes the request on as it came, with no rewrite and no header
\* added.
C15_DetectorRewrites ==
    (stage1.arrived /\ detector = "helper") =>
        LET url == stage1.request.url
            out == stage1.response IN
        IF \E i \in DOMAIN url.query : url.query[i].key = "gremllm"
        THEN /\ out.kind = "rewrite"
             /\ out.to = [origin |-> url.origin, pathname |-> "/api/gremllm",
                          query |-> <<>>]
             /\ out.xGremllmUrl.set
             /\ out.xGremllmUrl.url.origin = url.origin
             /\ out.xGremllmUrl.url.pathname = url.pathname
             /\ out.xGremllmUrl.url.query = without(url.query, "gremllm")
        ELSE /\ out.kind = "next"
             /\ out.to = url
             /\ out.xGremllmUrl = stage1.request.xGremllmUrl

\* /about?gremllm&page=2 is rewritten with the header naming /about?page=2.
C15_Witness ==
    /\ stage1.arrived
    /\ stage1.request.url.pathname = "/about"
    /\ stage1.request.url.query =
           <<[key |-> "gremllm", value |-> ""], [key |-> "page", value |-> "2"]>>
    /\ stage1.response.kind = "rewrite"
    /\ stage1.response.xGremllmUrl.url.query = <<[key |-> "page", value |-> "2"]>>

\* GET got as far as an upstream response.
Fetched == stage2.invoked /\ stage2.did.fetched # <<>> /\ stage2.upstream.kind = "response"

HeaderPresent == stage2.request.xGremllmUrl.set /\ stage2.request.xGremllmUrl.url # NoUrl

Upstream2xx == stage2.upstream.status \in 200..299

UpstreamHtml == stage2.upstream.contentType \in {"text/html", "text/html; charset=utf-8"}

\* C16, as stated: GET invokes the bridge only when the header is present,
\* the upstream response is 2xx and its content type is HTML; for an upstream
\* response with any other content type it returns 400 and never invokes
\* the conversion.
C16_NonHtmlIs400 ==
    /\ (stage2.invoked /\ stage2.did.converted)
          => (HeaderPresent /\ Upstream2xx /\ UpstreamHtml)
    /\ (Fetched /\ ~UpstreamHtml)
          => (stage2.did.reply.status = 400 /\ ~stage2.did.converted)

\* C16, amended: GET invokes the bridge only when the header is present, the
\* upstream response is 2xx and its content type is HTML; for a 2xx upstream
\* response with any other content type it returns 400, an upstream response
\* that is not 2xx is answered with the upstream status, and in neither case
\* is the conversion invoked.
C16_Non2xxForwardedNonHtmlIs400 ==
    /\ (stage2.invoked /\ stage2.did.converted)
          => (HeaderPresent /\ Upstream2xx /\ UpstreamHtml)
    /\ (Fetched /\ Upstream2xx /\ ~UpstreamHtml)
          => (stage2.did.reply.status = 400 /\ ~stage2.did.converted)
    /\ (Fetched /\ ~Upstream2xx)
          => (stage2.did.reply.status = stage2.upstream.status /\ ~stage2.did.converted)

\* A page that answers 200 with application/json.
C16_Witness ==
    /\ Fetched
    /\ stage2.upstream.status = 200
    /\ stage2.upstream.contentType = "application/json"
    /\ stage2.did.reply.status = 400
    /\ stage2.did.reply.body = "Not an HTML page"
    /\ ~stage2.did.converted

\* C17: when the header x-gremllm-url is absent, GET returns 400 without
\* fetching any URL, without reading the configuration and without invoking
\* the conversion.
C17_MissingHeaderIs400 ==
    (stage2.invoked /\ ~HeaderPresent)
        => /\ stage2.did.reply.status = 400
           /\ ~stage2.did.reply.threw
           /\ stage2.did.fetched = <<>>
           /\ ~stage2.did.configRead
           /\ ~stage2.did.converted

\* A client calls the conversion route itself, with no such header, on a
\* server whose configuration names elements to strip.
C17_Witness ==
    /\ stage2.invoked
    /\ ~stage2.request.xGremllmUrl.set
    /\ stage2.request.url.pathname = "/api/gremllm"
    /\ env["GREMLLM_CONFIG"].set
    /\ stage2.did.reply.status = 400
    /\ stage2.did.reply.body = "Missing target URL"

\* C18: every invocation of GET returns a response and never throws: any
\* exception raised while fetching, reading the body or converting gives a
\* 500 whose body is the fixed message, whatever the exception was.
C18_AlwaysAResponse ==
    stage2.invoked =>
        /\ ~stage2.did.reply.threw
        /\ stage2.did.reply.status \in 200..599
        /\ stage2.did.raised # "none"
              => stage2.did.reply =
                    [status |-> 500, body |-> "Internal server error",
                     contentType |-> "application/json", cacheControl |-> "",
                     threw |-> FALSE]

\* The body of a 200 text/html response cannot be read.
C18_Witness ==
    /\ stage2.invoked
    /\ stage2.upstream.status = 200
    /\ stage2.upstream.textThrows
    /\ stage2.did.raised = "text"
    /\ stage2.did.reply.status = 500
    /\ stage2.did.reply.body = "Internal server error"

\* C19: for a request with the header, a 2xx upstream response and an HTML
\* content type, GET returns 200 with the conversion result as body,
\* Content-Type text/markdown; charset=utf-8 and Cache-Control public,
\* max-age=3600, with a non-empty elementsToStrip configured and with none.
C19_MarkdownReply ==
    (Fetched /\ HeaderPresent /\ Upstream2xx /\ UpstreamHtml /\ ~stage2.upstream.textThrows)
        => /\ stage2.did.converted
           /\ stage2.did.reply =
                 [status |-> 200, body |-> stage2.markdown,
                  contentType |-> "text/markdown; charset=utf-8",
                  cacheControl |-> "public, max-age=3600", threw |-> FALSE]

\* C20: the configuration given to withGremllm reaches GET: the key it is
\* stored under is the key GET reads, so the strip list GET works with, and
\* passes to convert, is the elementsToStrip given to withGremllm.
C20_ConfigReachesGET ==
    (stage2.invoked /\ stage2.did.configRead)
        => stage2.did.elementsToStrip = configured.elementsToStrip

----------------------------------------------------------------------------
(* Further claims about the bridge, checked under SpecBridge *)

C24_FirstExistingCandidate ==
    [][ (calls' # calls /\ last'.lookup # NoLookup /\ libName(platform) # Unsupported) =>
           LET name == libName(platform)
               candidates == << [dir |-> "package", name |-> name],
                                [dir |-> "cwd", name |-> name],
                                [dir |-> "node_modules", name |-> name] >>
               lookup == last'.lookup IN
           /\ lookup.threw <=> (\A i \in 1..3 : ~existsSync(candidates[i]))
           /\ ~lookup.threw =>
                 \E i \in 1..3 :
                     /\ lookup.path = candidates[i]
                     /\ existsSync(candidates[i])
                     /\ \A j \in 1..(i - 1) : ~existsSync(candidates[j])
           /\ lookup.threw =>
                 \A i \in 1..3 :
                     \E k \in DOMAIN lookup.searched : lookup.searched[k] = candidates[i] ]_vars

\* The package-relative candidate is absent and both later candidates exist:
\* the loader settles on the cwd-relative one.
C24_Witness ==
    /\ Called
    /\ last.lookup.path = [dir |-> "cwd", name |-> libName(platform)]
    /\ ~binaries[libName(platform)].exists
    /\ [dir |-> "node_modules", name |-> libName(platform)] \in elsewhere
    /\ "notfound" \in recovered

\* C27: whenever the native Convert call returns a non-null result, convert
\* returns exactly that text, the empty text included.
C27_NonNullReturnedVerbatim ==
    (Called /\ last.native.kind = "text") => (~last.threw /\ last.ret = last.native.text)

\* C30: a convert call on non-empty input that finds the handle unset attempts
\* the load; if the attempt fails the handle stays unset and the call returns
\* its input; if it succeeds the handle is set and the call returns the text
\* the native function produced.
C30_FailedLoadIsRetried ==
    (Called /\ last.html # "" /\ last.before = Unset) =>
        /\ last.searched
        /\ last.cause \in {"unsupported", "notfound", "open"} =>
              /\ Convert = Unset
              /\ last.ret = last.html
              /\ ~last.threw
        /\ last.cause \notin {"unsupported", "notfound", "open"} =>
              /\ Convert # Unset
              /\ last.loads = 1
              /\ last.native.kind = "text" => last.ret = last.native.text

----------------------------------------------------------------------------
(* Further claims about the installer, checked under SpecInstall *)

\* The output names of the Windows targets.
WindowsOutputs == {"libschema.dll", "libschema-windows-amd64.exe"}

\* C25: on Unix-like targets the extracted library is made executable before it
\* is renamed to the output path, so the output path never holds a library file
\* that has not been made executable.
C25_ExecutableBeforeRename ==
    (revision # "direct") =>
        \A n \in BinaryNames \ WindowsOutputs :
            binaries[n].exists => binaries[n].exec

\* C26: the directory in which the installer looks for the payload holds only
\* files extracted from the current invocation's archive, and a file left by an
\* earlier invocation is never selected as the payload.
C26_OnlyCurrentExtraction ==
    (revision # "direct" /\ found.located) =>
        /\ found.from = run
        /\ pc = "rename" => \A f \in tempFiles : f.from = run

----------------------------------------------------------------------------
(* A claim about the installer and the loader together, checked under        *)
(* SpecProvision                                                             *)

\* C28: the filename under which the installer stores the library is the
\* filename the loader searches for, so after a successful install the first
\* ensureLoaded finds the installed file in the binaries directory.
C28_LoaderFindsInstalledFile ==
    (pc = "done" /\ calls = 1 /\ last.searched) =>
        /\ ~last.lookup.threw
        /\ last.lookup.path.dir = "package"
        /\ last.lookup.path.name \in Outputs

----------------------------------------------------------------------------
(* Further claims about the request handoff, checked under SpecHandoff *)

\* C21: when the base-URL override is set, the URL stage 2 fetches has the
\* override's scheme and host and the target URL's path and query; when it is
\* not set, stage 2 fetches the target URL unchanged.
C21_BaseUrlOverride ==
    (stage2.invoked /\ stage2.did.fetched # <<>>) =>
        LET targetUrl == stage2.request.xGremllmUrl.url
            url == stage2.did.fetched[1] IN
        IF baseUrl # NoBaseUrl
        THEN url = [targetUrl EXCEPT !.origin = baseUrl]
        ELSE url = targetUrl

\* C22: every outbound fetch made while serving a request targets the origin
\* of that request, whatever its headers and query and whichever route it
\* names.
C22_FetchesSameOrigin ==
    /\ stage2.invoked =>
          \A i \in DOMAIN stage2.did.fetched :
              stage2.did.fetched[i].origin = stage2.request.url.origin
    /\ inlined.ran =>
          \A i \in DOMAIN inlined.fetched :
              inlined.fetched[i].origin = inlined.request.url.origin

\* C29: handling one triggered request causes at most one internal page fetch,
\* its URL never carries the trigger parameter, the detector passes that
\* fetch through, and the request gets its reply; this with the detector of
\* part_001 and GET, and with the converting middleware of src/middleware.ts.
C29_OneFetchNoRecursion ==
    /\ (stage2.invoked /\ stage2.triggered) =>
          /\ Len(stage2.did.fetched) <= 1
          /\ \A i \in DOMAIN stage2.did.fetched :
                /\ ~has(stage2.did.fetched[i].query, TriggerParam)
                /\ stage2.inner.kind = "next"
          /\ ~stage2.did.reply.threw
          /\ stage2.did.reply.status # 0
    /\ inlined.ran =>
          /\ Len(inlined.fetched) <= 1
          /\ \A i \in DOMAIN inlined.fetched :
                /\ ~has(inlined.fetched[i].query, TriggerParam)
                /\ inlined.inner.kind = "next"
          /\ inlined.kind \in {"next", "markdown"}

\* A request that names the trigger twice, beside another parameter.
C29_Witness ==
    /\ stage2.invoked
    /\ stage2.triggered
    /\ stage2.did.fetched =
          << [origin |-> Origin, pathname |-> "/about",
              query |-> <<[key |-> "page", value |-> "2"]>>] >>
    /\ stage2.inner.kind = "next"
    /\ stage2.did.reply.status = 200
    /\ gets = 2

====
